---- MODULE Spec2Model ----
(***************************************************************************)
(* Model of the issue tracker's request handlers (app/routes/issues.py),   *)
(* its Issue table (app/models.py) and its per-request database session    *)
(* (app/database.py).                                                      *)
(*                                                                         *)
(* The store is SQLAlchemy's ORM over SQLite.  What the handlers rely on:  *)
(*  - issues.id is INTEGER PRIMARY KEY (the table sets no                  *)
(*    sqlite_autoincrement), so an INSERT takes max(id) + 1;               *)
(*  - a flush writes only the attributes whose value differs from the      *)
(*    value the session loaded, and emits no UPDATE when none differs;     *)
(*    onupdate=func.now() is part of an emitted UPDATE only;               *)
(*  - an UPDATE of a row that is gone raises (StaleDataError), a NULL in   *)
(*    a nullable=False column raises (IntegrityError).                     *)
(*                                                                         *)
(* Spec     : requests served one at a time, each handler run to its end.  *)
(* SpecConc : handlers of several requests interleaved at their database   *)
(*            round trips (FastAPI runs "def" handlers on a thread pool).  *)
(***************************************************************************)
EXTENDS Integers, Sequences, FiniteSets

\* ------------------------------------------------------------------ bounds
MaxIssues == 2      \* largest id the store hands out in the model
MaxTime == 1        \* last reading of the database clock
MaxReq == 2         \* requests in flight in SpecConc

\* ---------------------------------------------------------------- constants
LimitMax == 100     \* Query(100, ge=1, le=100)

NULL == "None"      \* Python None / SQL NULL

IssueStatus == {"open", "in_progress", "resolved", "closed"}
IssuePriority == {"low", "medium", "high", "critical"}

MutableFields == {"title", "description", "status", "priority", "reporter", "assignee"}
NotNullFields == {"title", "status", "priority", "reporter"}

\* Validated IssueCreate bodies (POST and PUT).
PA == [title |-> "t1", description |-> NULL, status |-> "open",
       priority |-> "medium", reporter |-> "r1", assignee |-> NULL]
PB == [title |-> "t2", description |-> "d1", status |-> "resolved",
       priority |-> "high", reporter |-> "r2", assignee |-> "al"]
PC == [title |-> "t1", description |-> NULL, status |-> "resolved",
       priority |-> "medium", reporter |-> "r1", assignee |-> NULL]
\* The validation of an IssueCreate body: required strings, enumerated values.
Valid(p) ==
  /\ p.title \notin {NULL, ""} /\ p.reporter \notin {NULL, ""}
  /\ p.status \in IssueStatus /\ p.priority \in IssuePriority
IssueCreate == {p \in {PA, PB} : Valid(p)}

\* IssueUpdate bodies (PATCH): every field optional with default None;
\* fields_set is pydantic's record of the fields the request body named.
Unset == [f \in MutableFields |-> NULL]
IssueUpdate ==
  { [fields_set |-> {}, values |-> Unset],
    [fields_set |-> {"assignee"}, values |-> Unset],
    [fields_set |-> {"title"}, values |-> Unset],
    [fields_set |-> MutableFields \ {"assignee"}, values |-> [PB EXCEPT !["assignee"] = NULL]] }

\* model_dump(exclude_unset=True): the fields the body named, with their values.
model_dump_exclude_unset(u) == [f \in u.fields_set |-> u.values[f]]

IssueIds == 1..(MaxIssues + 1)     \* path parameters tried; MaxIssues + 1 never exists
Requests == 1..MaxReq

VARIABLES
  table,     \* the issues table: id -> row
  now,       \* the database clock (CURRENT_TIMESTAMP)
  resp,      \* the response of the last request served (Spec)
  issued,    \* ids returned by create_issue so far (history)
  pc,        \* SpecConc: where each request's handler stands
  req,       \* SpecConc: each request's operation and arguments
  obj,       \* SpecConc: the Issue object each request's session holds
  sess,      \* SpecConc: the session get_db gave each request (0: none)
  open,      \* SpecConc: the sessions created and not yet closed
  lastc      \* SpecConc: the request whose db.commit() succeeded last (0: none; history)

vars == <<table, now, resp, issued, pc, req, obj, sess, open, lastc>>
concVars == <<pc, req, obj, sess, open, lastc>>
seqVars == <<resp, issued>>

Max(S) == CHOOSE x \in S : \A y \in S : y <= x
Min2(a, b) == IF a <= b THEN a ELSE b
Max2(a, b) == IF a >= b THEN a ELSE b

\* ------------------------------------------------------------------- store

\* INTEGER PRIMARY KEY without AUTOINCREMENT: one more than the largest id present.
NextRowId(t) == IF DOMAIN t = {} THEN 1 ELSE Max(DOMAIN t) + 1

\* db.add(Issue(**issue.model_dump())); db.commit(): the INSERT, with the
\* server defaults of created_at and updated_at.
Insert(t, p, n) ==
  LET i == NextRowId(t)
      row == [title |-> p.title, description |-> p.description, status |-> p.status,
              priority |-> p.priority, reporter |-> p.reporter, assignee |-> p.assignee,
              created_at |-> n, updated_at |-> n]
  IN [j \in DOMAIN t \cup {i} |-> IF j = i THEN row ELSE t[j]]

\* db.query(Issue).filter(Issue.id == issue_id).first(): the row, or nothing.
QueryFirst(t, i) == IF i \in DOMAIN t THEN <<t[i]>> ELSE <<>>

\* Mutant of SetAttrs: "if value is not None: setattr(...)".
SetAttrsSkipNone(o, data) ==
  [f \in DOMAIN o |-> IF f \in DOMAIN data /\ data[f] # NULL THEN data[f] ELSE o[f]]

\* for field, value in data.items(): setattr(db_issue, field, value)
SetAttrs(o, data) == [f \in DOMAIN o |-> IF f \in DOMAIN data THEN data[f] ELSE o[f]]

\* The attributes with a net change against the value the session loaded.
Dirty(loaded, o) == {f \in MutableFields : o[f] # loaded[f]}

\* Mutant of FlushUpdate: an UPDATE (with its onupdate) is emitted for every
\* object the handler touched, changed or not.
FlushUpdateTouch(t, i, loaded, o, n) ==
  LET d == Dirty(loaded, o) IN
  IF i \notin DOMAIN t THEN [st |-> "stale", table |-> t]
  ELSE IF \E f \in d \cap NotNullFields : o[f] = NULL THEN [st |-> "integrity", table |-> t]
  ELSE [st |-> "ok",
        table |-> [t EXCEPT ![i] =
                    [f \in DOMAIN t[i] |->
                       IF f \in d THEN o[f]
                       ELSE IF f = "updated_at" THEN n
                       ELSE t[i][f]]]]

\* The flush of db.commit() for a loaded object: "ok" with the new table,
\* or the error raised (the transaction is then rolled back by db.close()).
FlushUpdate(t, i, loaded, o, n) ==
  LET d == Dirty(loaded, o) IN
  IF d = {} THEN [st |-> "ok", table |-> t]
  ELSE IF i \notin DOMAIN t THEN [st |-> "stale", table |-> t]
  ELSE IF \E f \in d \cap NotNullFields : o[f] = NULL THEN [st |-> "integrity", table |-> t]
  ELSE [st |-> "ok",
        table |-> [t EXCEPT ![i] =
                    [f \in DOMAIN t[i] |->
                       IF f \in d THEN o[f]
                       ELSE IF f = "updated_at" THEN n
                       ELSE t[i][f]]]]

\* Mutant of FlushDelete: db.delete() with no db.commit(), undone by db.close().
FlushDeleteRolledBack(t, i) == t

\* db.delete(db_issue); db.commit(): a DELETE that matches no row only warns.
FlushDelete(t, i) == [j \in DOMAIN t \ {i} |-> t[j]]

\* ---------------------------------------------------------------- responses
Resp(op, code, id) ==
  [op |-> op, code |-> code, id |-> id, total |-> 0, count |-> 0, issues |-> <<>>]
NoResp == Resp("none", 0, 0)
NoReq == [op |-> "none", id |-> 0, body |-> <<>>]

\* ----------------------------------------------------------------- handlers
\* Each handler as a function of the table, the clock and the request:
\* the table it leaves and the response it gives.

\* POST /issues/
create_issue_result(t, n, p) ==
  [table |-> Insert(t, p, n), resp |-> Resp("create", 201, NextRowId(t))]

\* Python truth of an Optional[str] query parameter: None and "" are false.
Truthy(v) == v \notin {NULL, ""}

\* query.filter(...) for each filter the "if" lets through.
Filtered(t, status, priority, assignee) ==
  {i \in DOMAIN t :
     /\ (Truthy(status) => t[i].status = status)
     /\ (Truthy(priority) => t[i].priority = priority)
     /\ (Truthy(assignee) => t[i].assignee = assignee)}

\* The rows of a scan of the table, in rowid order.
RECURSIVE Scan(_)
Scan(S) == IF S = {} THEN <<>>
           ELSE LET m == CHOOSE x \in S : \A y \in S : x <= y
                IN <<m>> \o Scan(S \ {m})

\* query.offset(skip).limit(limit).all()
OffsetLimit(s, skip, limit) == SubSeq(s, skip + 1, Min2(Len(s), skip + limit))

\* GET /issues/
list_issues_result(t, status, priority, assignee, skip, limit) ==
  LET q == Filtered(t, status, priority, assignee)
      issues == OffsetLimit(Scan(q), skip, limit)
  IN [table |-> t,
      resp |-> [op |-> "list", code |-> 200, id |-> 0,
                total |-> Cardinality(q), count |-> Len(issues), issues |-> issues]]

\* GET /issues/{issue_id}
get_issue_result(t, i) ==
  IF QueryFirst(t, i) = <<>>
  THEN [table |-> t, resp |-> Resp("get", 404, 0)]
  ELSE [table |-> t, resp |-> Resp("get", 200, i)]

\* The tail shared by PUT and PATCH: setattr, db.commit(), db.refresh().
UpdateLoaded(t, n, i, data, op) ==
  LET loaded == QueryFirst(t, i)[1]
      f == FlushUpdate(t, i, loaded, SetAttrs(loaded, data), n)
  IN IF f.st = "ok"
     THEN [table |-> f.table, resp |-> Resp(op, 200, i)]
     ELSE [table |-> t, resp |-> Resp(op, 500, 0)]

\* Mutant of update_issue_result: the body dumped with exclude_none=True.
update_issue_result_exclude_none(t, n, i, p) ==
  IF QueryFirst(t, i) = <<>>
  THEN [table |-> t, resp |-> Resp("put", 404, 0)]
  ELSE UpdateLoaded(t, n, i, [f \in {g \in MutableFields : p[g] # NULL} |-> p[f]], "put")

\* PUT /issues/{issue_id}
update_issue_result(t, n, i, p) ==
  IF QueryFirst(t, i) = <<>>
  THEN [table |-> t, resp |-> Resp("put", 404, 0)]
  ELSE UpdateLoaded(t, n, i, p, "put")

\* PATCH /issues/{issue_id}
partial_update_issue_result(t, n, i, u) ==
  IF QueryFirst(t, i) = <<>>
  THEN [table |-> t, resp |-> Resp("patch", 404, 0)]
  ELSE UpdateLoaded(t, n, i, model_dump_exclude_unset(u), "patch")

\* Mutant of delete_issue_result: no "if not db_issue" before the delete.
delete_issue_result_unchecked(t, i) ==
  [table |-> FlushDelete(t, i), resp |-> Resp("delete", 200, i)]

\* DELETE /issues/{issue_id}
delete_issue_result(t, i) ==
  IF QueryFirst(t, i) = <<>>
  THEN [table |-> t, resp |-> Resp("delete", 404, 0)]
  ELSE [table |-> FlushDelete(t, i), resp |-> Resp("delete", 200, i)]

\* ------------------------------------------------- Spec: one request at a time
StatusFilters == {NULL, "open", "resolved"}
PriorityFilters == {NULL, "medium", "high"}
AssigneeFilters == {NULL, "", "al"}
Skips == 0..(MaxIssues + 1)
Limits == {1, 2, LimitMax}

Init ==
  /\ table = <<>>
  /\ now = 0
  /\ resp = NoResp
  /\ issued = {}
  /\ pc = [r \in Requests |-> "idle"]
  /\ req = [r \in Requests |-> NoReq]
  /\ obj = [r \in Requests |-> <<>>]
  /\ sess = [r \in Requests |-> 0]
  /\ open = {}
  /\ lastc = 0

Tick ==
  /\ now < MaxTime
  /\ now' = now + 1
  /\ UNCHANGED <<table, resp, issued, concVars>>

create_issue(p) ==
  /\ NextRowId(table) <= MaxIssues
  /\ LET r == create_issue_result(table, now, p) IN
       /\ table' = r.table
       /\ resp' = r.resp
       /\ issued' = issued \cup {r.resp.id}
  /\ UNCHANGED <<now, concVars>>

list_issues(status, priority, assignee, skip, limit) ==
  /\ resp' = list_issues_result(table, status, priority, assignee, skip, limit).resp
  /\ UNCHANGED <<table, now, issued, concVars>>

get_issue(i) ==
  /\ resp' = get_issue_result(table, i).resp
  /\ UNCHANGED <<table, now, issued, concVars>>

update_issue(i, p) ==
  /\ LET r == update_issue_result(table, now, i, p) IN
       /\ table' = r.table
       /\ resp' = r.resp
  /\ UNCHANGED <<now, issued, concVars>>

partial_update_issue(i, u) ==
  /\ LET r == partial_update_issue_result(table, now, i, u) IN
       /\ table' = r.table
       /\ resp' = r.resp
  /\ UNCHANGED <<now, issued, concVars>>

delete_issue(i) ==
  /\ LET r == delete_issue_result(table, i) IN
       /\ table' = r.table
       /\ resp' = r.resp
  /\ UNCHANGED <<now, issued, concVars>>

Next ==
  \/ Tick
  \/ \E p \in IssueCreate : create_issue(p)
  \/ \E st \in {NULL, "open"}, a \in AssigneeFilters, page \in {<<0, LimitMax>>, <<1, 1>>} :
        list_issues(st, NULL, a, page[1], page[2])
  \/ \E i \in IssueIds : get_issue(i)
  \/ \E i \in IssueIds, p \in IssueCreate : update_issue(i, p)
  \/ \E i \in IssueIds, u \in IssueUpdate : partial_update_issue(i, u)
  \/ \E i \in IssueIds : delete_issue(i)

Spec == Init /\ [][Next]_vars

\* ------------------------------------------- SpecConc: interleaved requests
\* Each request is one pass through get_db and a handler, taken one database
\* round trip at a time:
\*   idle -> handler   get_db: db = SessionLocal(); yield db
\*   handler -> loaded | exit     the handler's query (404 when nothing is found)
\*   handler | loaded -> committed | exit    db.commit()
\*   committed -> exit            db.refresh(db_issue); return
\*   exit -> done                 get_db: finally: db.close()
PutBodies == {p \in {PB, PC} : Valid(p)}
PatchBodies == {[fields_set |-> {"title"}, values |-> Unset]}
ConcIds == {1}

ConcRequests ==
  {[op |-> "create", id |-> 0, body |-> PB]}
  \cup {[op |-> "get", id |-> i, body |-> <<>>] : i \in ConcIds}
  \cup {[op |-> "delete", id |-> i, body |-> <<>>] : i \in ConcIds}
  \cup {[op |-> "put", id |-> i, body |-> p] : i \in ConcIds, p \in PutBodies}
  \cup {[op |-> "patch", id |-> i, body |-> model_dump_exclude_unset(u)] :
          i \in ConcIds, u \in PatchBodies}

\* The store as an earlier run left it: empty, or holding one issue.
InitConc ==
  /\ table \in {<<>>, Insert(<<>>, PA, 0)}
  /\ now = 0
  /\ resp = NoResp
  /\ issued = {}
  /\ pc = [r \in Requests |-> "idle"]
  /\ req = [r \in Requests |-> NoReq]
  /\ obj = [r \in Requests |-> <<>>]
  /\ sess = [r \in Requests |-> 0]
  /\ open = {}
  /\ lastc = 0

\* SessionLocal(): a new Session object, named after the call that made it.
SessionLocal(r) == r

\* get_db up to its yield, for a request the router has matched and validated.
get_db_open(r, q) ==
  /\ pc[r] = "idle"
  /\ q.op = "create" =>
       NextRowId(table) + Cardinality({x \in Requests : pc[x] = "handler" /\ req[x].op = "create"})
         <= MaxIssues
  /\ sess' = [sess EXCEPT ![r] = SessionLocal(r)]
  /\ open' = open \cup {SessionLocal(r)}
  /\ req' = [req EXCEPT ![r] = q]
  /\ pc' = [pc EXCEPT ![r] = "handler"]
  /\ UNCHANGED <<table, now, seqVars, obj, lastc>>

\* The handler's lookup, the 404 it raises, and its setattr loop.
handler_query(r) ==
  /\ pc[r] = "handler"
  /\ req[r].op \in {"get", "put", "patch", "delete"}
  /\ LET found == QueryFirst(table, req[r].id) IN
       IF found = <<>>
       THEN /\ pc' = [pc EXCEPT ![r] = "exit404"]
            /\ obj' = obj
       ELSE IF req[r].op = "get"
       THEN /\ pc' = [pc EXCEPT ![r] = "exit200"]
            /\ obj' = obj
       ELSE /\ pc' = [pc EXCEPT ![r] = "loaded"]
            /\ obj' = [obj EXCEPT ![r] =
                 <<found[1], IF req[r].op = "delete" THEN found[1]
                             ELSE SetAttrs(found[1], req[r].body)>>]
  /\ UNCHANGED <<table, now, seqVars, req, sess, open, lastc>>

\* db.commit() of create_issue: the INSERT.
handler_commit_insert(r) ==
  /\ pc[r] = "handler"
  /\ req[r].op = "create"
  /\ table' = Insert(table, req[r].body, now)
  /\ req' = [req EXCEPT ![r].id = NextRowId(table)]
  /\ lastc' = r
  /\ pc' = [pc EXCEPT ![r] = "committed"]
  /\ UNCHANGED <<now, seqVars, obj, sess, open>>

\* db.commit() of update_issue and partial_update_issue: the flush of the
\* session's net changes, against the table as it is now.
handler_commit_update(r) ==
  /\ pc[r] = "loaded"
  /\ req[r].op \in {"put", "patch"}
  /\ LET f == FlushUpdate(table, req[r].id, obj[r][1], obj[r][2], now) IN
       IF f.st = "ok"
       THEN /\ table' = f.table
            /\ lastc' = r
            /\ pc' = [pc EXCEPT ![r] = "committed"]
       ELSE /\ table' = table
            /\ lastc' = lastc
            /\ pc' = [pc EXCEPT ![r] = "exit500"]
  /\ UNCHANGED <<now, seqVars, req, obj, sess, open>>

\* db.delete(db_issue); db.commit(); return.
handler_commit_delete(r) ==
  /\ pc[r] = "loaded"
  /\ req[r].op = "delete"
  /\ table' = FlushDelete(table, req[r].id)
  /\ lastc' = r
  /\ pc' = [pc EXCEPT ![r] = "exit200"]
  /\ UNCHANGED <<now, seqVars, req, obj, sess, open>>

\* db.refresh(db_issue); return db_issue.  A row that is gone raises.
handler_refresh(r) ==
  /\ pc[r] = "committed"
  /\ pc' = [pc EXCEPT ![r] =
        IF QueryFirst(table, req[r].id) = <<>> THEN "exit500" ELSE "exit200"]
  /\ UNCHANGED <<table, now, seqVars, req, obj, sess, open, lastc>>

Exits == {"exit200", "exit404", "exit500"}

\* Mutant of get_db_close: db.close() after the yield with no try/finally,
\* so it runs only when the handler returns.
get_db_close_no_finally(r) ==
  /\ pc[r] \in Exits
  /\ open' = IF pc[r] = "exit200" THEN open \ {sess[r]} ELSE open
  /\ pc' = [pc EXCEPT ![r] = IF pc[r] = "exit200" THEN "done200"
                              ELSE IF pc[r] = "exit404" THEN "done404" ELSE "done500"]
  /\ UNCHANGED <<table, now, seqVars, req, obj, sess, lastc>>

\* get_db after its yield: finally: db.close(), on return and on exception alike.
get_db_close(r) ==
  /\ pc[r] \in Exits
  /\ open' = open \ {sess[r]}
  /\ pc' = [pc EXCEPT ![r] = IF pc[r] = "exit200" THEN "done200"
                              ELSE IF pc[r] = "exit404" THEN "done404" ELSE "done500"]
  /\ UNCHANGED <<table, now, seqVars, req, obj, sess, lastc>>

Step(r) ==
  \/ \E q \in ConcRequests : get_db_open(r, q)
  \/ handler_query(r)
  \/ handler_commit_insert(r)
  \/ handler_commit_update(r)
  \/ handler_commit_delete(r)
  \/ handler_refresh(r)
  \/ get_db_close(r)

NextConc == \E r \in Requests : Step(r)

SpecConc == InitConc /\ [][NextConc]_vars

\* Each request runs on a pool thread that keeps running once it has started.
FairSpecConc == SpecConc /\ \A r \in Requests : WF_vars(Step(r) /\ pc[r] # "idle")

\* ===================================================================== claims
Done == {"done200", "done404", "done500"}
Committed == {"committed", "exit200", "done200"}
Fields(row) == [f \in MutableFields |-> row[f]]

\* The stored issues an exact-match reading of the filters selects: every
\* filter the request carries (any value but None) must equal the column.
ExactMatch(t, status, priority, assignee) ==
  {i \in DOMAIN t :
     /\ (status # NULL => t[i].status = status)
     /\ (priority # NULL => t[i].priority = priority)
     /\ (assignee # NULL => t[i].assignee = assignee)}

Elems(s) == {s[k] : k \in 1..Len(s)}

\* The total of an unfiltered List.
UnfilteredTotal(t) == list_issues_result(t, NULL, NULL, NULL, 0, LimitMax).resp.total

\* C1: the id a Create returns was returned by no earlier Create.
C1_IdNeverReused ==
  \A p \in IssueCreate :
    NextRowId(table) <= MaxIssues => create_issue_result(table, now, p).resp.id \notin issued

C3_NotFound ==
  \A i \in IssueIds \ DOMAIN table :
    /\ get_issue_result(table, i) = [table |-> table, resp |-> Resp("get", 404, 0)]
    /\ delete_issue_result(table, i) = [table |-> table, resp |-> Resp("delete", 404, 0)]
    /\ \A p \in IssueCreate :
         update_issue_result(table, now, i, p) = [table |-> table, resp |-> Resp("put", 404, 0)]
    /\ \A u \in IssueUpdate :
         partial_update_issue_result(table, now, i, u)
           = [table |-> table, resp |-> Resp("patch", 404, 0)]

\* C3 witness: a Delete of an id that is not stored has answered 404 while
\* other issues are stored.
C3_Witness ==
  /\ resp.op = "delete" /\ resp.code = 404
  /\ DOMAIN table # {} /\ IssueIds \ DOMAIN table # {}

\* C4: a successful Delete leaves the id not found, the unfiltered total one
\* less and the other issues as they were; and an id that is not found stays
\* not found over every step that is not a Create.
C4_DeletePost ==
  \A i \in DOMAIN table :
    LET d == delete_issue_result(table, i) IN
      /\ d.resp.code = 200
      /\ get_issue_result(d.table, i).resp.code = 404
      /\ UnfilteredTotal(d.table) = UnfilteredTotal(table) - 1
      /\ \A j \in DOMAIN table \ {i} : j \in DOMAIN d.table /\ d.table[j] = table[j]
C4_StaysGone ==
  \A i \in IssueIds :
    (get_issue_result(table, i).resp.code = 404 /\ ~(\E p \in IssueCreate : create_issue(p)))
      => get_issue_result(table', i).resp.code = 404
\* C4: after a successful Delete, and until a Create, a Get of the id is
\* NotFound; the Delete takes one off the unfiltered total and touches no other issue.
C4_DeleteRemoves == []C4_DeletePost /\ [][C4_StaysGone]_vars

\* C4 witness: a Delete has succeeded, its id is gone and another issue remains.
C4_Witness ==
  /\ resp.op = "delete" /\ resp.code = 200
  /\ resp.id \notin DOMAIN table /\ DOMAIN table # {}

\* C5: for every List call, total is the number of stored issues matching the
\* filters whatever skip and limit are, count is the length of the page, and
\* count = min(limit, max(0, total - skip)).
C5_TotalAndCount ==
  \A st \in StatusFilters, pr \in PriorityFilters, a \in AssigneeFilters,
     sk \in Skips, lim \in Limits :
    LET r == list_issues_result(table, st, pr, a, sk, lim).resp IN
      /\ r.total = Cardinality(ExactMatch(table, st, pr, a))
      /\ r.count = Len(r.issues)
      /\ r.count = Min2(lim, Max2(0, r.total - sk))

\* C6: every filter present in a List request is an exact-match predicate, and
\* the issues returned and total cover exactly the stored issues that satisfy
\* all the present predicates.
C6_FiltersExactAnd ==
  \A st \in StatusFilters, pr \in PriorityFilters, a \in AssigneeFilters :
    LET r == list_issues_result(table, st, pr, a, 0, LimitMax).resp IN
      /\ Elems(r.issues) = ExactMatch(table, st, pr, a)
      /\ r.total = Cardinality(ExactMatch(table, st, pr, a))

\* C7: a successful FullUpdate sets every mutable field to the payload's value
\* and keeps id and created_at; the same FullUpdate again, at any later time,
\* leaves the table as the first left it, updated_at aside.
C7_FullUpdateIdempotent ==
  \A i \in IssueIds, p \in IssueCreate :
    LET r == update_issue_result(table, now, i, p) IN
    r.resp.code = 200 =>
      /\ i \in DOMAIN table /\ DOMAIN r.table = DOMAIN table /\ r.resp.id = i
      /\ Fields(r.table[i]) = p
      /\ r.table[i].created_at = table[i].created_at
      /\ \A n2 \in now..MaxTime :
           LET r2 == update_issue_result(r.table, n2, i, p) IN
             /\ r2.resp = r.resp
             /\ r2.table = [r.table EXCEPT ![i].updated_at = r2.table[i].updated_at]

\* C7 witness: a PUT has replaced the fields of an issue created earlier.
C7_Witness ==
  /\ resp.op = "put" /\ resp.code = 200 /\ resp.id \in DOMAIN table
  /\ Fields(table[resp.id]) = PB
  /\ table[resp.id].created_at < table[resp.id].updated_at

\* C8 as stated: every successful PartialUpdate leaves updated_at at the
\* current time, also when the applied values equal the stored ones and when
\* the payload names no field.
C8_AlwaysRefreshed ==
  \A i \in IssueIds, u \in IssueUpdate :
    LET r == partial_update_issue_result(table, now, i, u) IN
    r.resp.code = 200 => r.table[i].updated_at = now

\* C8 amended: a successful PartialUpdate leaves updated_at at the current time
\* when some field it names gets a value other than the stored one, and leaves
\* updated_at as it was when none does (an empty payload included).
C8_RefreshedOnChange ==
  \A i \in IssueIds, u \in IssueUpdate :
    LET r == partial_update_issue_result(table, now, i, u) IN
    r.resp.code = 200 =>
      r.table[i].updated_at =
        IF \E f \in u.fields_set : u.values[f] # table[i][f]
        THEN now ELSE table[i].updated_at

\* C8 witness: the last request was a successful PATCH of an issue whose
\* updated_at is older than the creation of another issue.
C8_Witness ==
  /\ resp.op = "patch" /\ resp.code = 200 /\ resp.id \in DOMAIN table
  /\ \E j \in DOMAIN table : table[j].created_at > table[resp.id].updated_at

\* C9: when two FullUpdate requests on the same id have both committed, every
\* mutable field of the stored issue equals the payload of the one that
\* committed last.
C9_LastCommitWins ==
  \A r1, r2 \in Requests :
    ( /\ r1 # r2
      /\ req[r1].op = "put" /\ req[r2].op = "put" /\ req[r1].id = req[r2].id
      /\ pc[r1] \in Committed /\ pc[r2] \in Committed /\ lastc = r2
      /\ req[r2].id \in DOMAIN table )
    => Fields(table[req[r2].id]) = req[r2].body

\* C10: a request's session is its own, it is closed on every exit path, and
\* once every request has finished no session is open.
C10_SessionScoped ==
  /\ [](\A r1, r2 \in Requests : (r1 # r2 /\ sess[r1] # 0) => sess[r1] # sess[r2])
  /\ []((\A r \in Requests : pc[r] \in Done \cup {"idle"}) => open = {})
  /\ \A r \in Requests : (sess[r] \in open) ~> (pc[r] \in Done /\ sess[r] \notin open)

\* C10 witness: requests have left by each of the three exit paths, their
\* sessions closed.
C10_Witness ==
  /\ \E r \in Requests : pc[r] = "done500" /\ sess[r] # 0 /\ sess[r] \notin open
  /\ \E r \in Requests : pc[r] \in {"done200", "done404"} /\ sess[r] # 0 /\ sess[r] \notin open

====
